---- MODULE Spec2Model ----
(***************************************************************************)
(* Tuiter server: the viewer-relative annotation of tuits (TuitService),   *)
(* the bookmark toggle (BookmarkController) and the deletion of users      *)
(* (UserController, AuthenticationController) over the record store.        *)
(***************************************************************************)
EXTENDS Integers, Sequences, FiniteSets

\* ------------------------------------------------------------------ bounds
\* Longest list of tuits handed to the service.
MaxLen == 2
\* Toggle requests that can be in progress at once.
NSlots == 2
\* Toggle requests of a run, per specification.
MaxToggles == 4
MaxTogglesAnnotate == 1
MaxTogglesDelete == 2
\* Deletion requests of a run.
MaxDeletes == 1
\* Store calls of a run that fail with a store error.
MaxStoreErrors == 1
\* User creation and update requests that can be in progress at once, and of a run.
NUserSlots == 2
MaxUserRequests == 2
\* Profile requests and bookmark list requests of a run.
MaxProfiles == 2
MaxSignups == 1
MaxLists == 1
MaxTogglesList == 2

\* ------------------------------------------------------------------ values
Null == <<"null", "-">>
Undefined == <<"undefined", "-">>
Pending == <<"pending", "-">>
Failed == <<"failed", "-">>
\* req.session['profile'] is not set.
NoProfile == "-"

\* An ObjectId of the store and the string form of an identifier.
Oid(n) == <<"oid", n>>
Str(n) == <<"str", n>>
\* A join record returned by a lookup; only its tuit field is read.
Rec(t) == <<"rec", t>>

UserIds == {"u1", "u2"}
TuitIds == {"t1", "t2"}
Relations == {"like", "dislike", "bookmark"}

\* x.toString() of an ObjectId or a string.
ToString(x) == <<"str", x[2]>>

\* The key mongoose casts a string or an ObjectId to.
CastId(x) == x[2]

\* l.tuit of a join record.
TuitOf(l) == Oid(l[2])

IndexOfZero(arr, x) ==
    IF \E i \in 1..Len(arr) : arr[i] = x
    THEN (CHOOSE i \in 1..Len(arr) :
            arr[i] = x /\ \A j \in 1..(i - 1) : arr[j] # x) - 1
    ELSE 0
\* Array.prototype.indexOf, zero-based, -1 when absent.
IndexOf(arr, x) ==
    IF \E i \in 1..Len(arr) : arr[i] = x
    THEN (CHOOSE i \in 1..Len(arr) :
            arr[i] = x /\ \A j \in 1..(i - 1) : arr[j] # x) - 1
    ELSE -1

SeqsUpTo(S, n) == UNION {[1..k -> S] : k \in 0..n}

\* ------------------------------------------------------------------ state
VARIABLES
    users,      \* User documents
    tuits,      \* Tuit documents
    likes,      \* Like documents, as (user, tuit) pairs
    dislikes,   \* Dislike documents, as (user, tuit) pairs
    bookmarks,  \* number of Bookmark documents per (user, tuit) pair
    session,    \* the _id of req.session['profile'] of the client, or NoProfile
    ann,        \* the call of fetchTuitsForLikesDisLikeOwn in progress
    tog,        \* the userTogglesTuitBookmarks requests, by slot
    del,        \* the user deletion request in progress
    hist,       \* history: what the toggles so far have done
    quota,      \* requests and store errors the run may still see
    usr,        \* the user creation and update requests, by slot
    auth,       \* the profile request in progress and the last /api/auth response
    lst         \* the findAllTuitsBookmarkedByUser request in progress

vars == <<users, tuits, likes, dislikes, bookmarks, session, ann, tog, del, hist, quota,
          usr, auth, lst>>
store == <<users, tuits, likes, dislikes, bookmarks>>
web == <<usr, auth, lst>>

Pairs == UserIds \X TuitIds

InitUsers == {[_id |-> "u1", username |-> "alice"],
              [_id |-> "u2", username |-> "bob"]}
InitTuits == {[_id |-> "t1", postedBy |-> "u1"],
              [_id |-> "t2", postedBy |-> "u2"]}

\* Tuit snapshots as handed to the service: the stored tuits, and t2 as it is
\* fetched when its author reference resolves to null.
TuitSnapshots == {[_id |-> Oid(t._id), postedBy |-> Oid(t.postedBy)] : t \in InitTuits}
                 \cup {[_id |-> Oid("t2"), postedBy |-> Null]}

Viewers == {Str(u) : u \in UserIds} \cup {Null}

\* ------------------------------------------------------------------ DAOs
findUserLikesTuit(userId, tid) ==
    IF userId # Null /\ <<CastId(userId), CastId(tid)>> \in likes
    THEN Rec(CastId(tid)) ELSE Null

findUserDislikesTuit(userId, tid) ==
    IF userId # Null /\ <<CastId(userId), CastId(tid)>> \in dislikes
    THEN Rec(CastId(tid)) ELSE Null

findUserBookmarksTuit(userId, tid) ==
    IF userId # Null /\ CastId(userId) \in UserIds
       /\ bookmarks[<<CastId(userId), CastId(tid)>>] > 0
    THEN Rec(CastId(tid)) ELSE Null

Lookup(rel, userId, tid) ==
    CASE rel = "like" -> findUserLikesTuit(userId, tid)
      [] rel = "dislike" -> findUserDislikesTuit(userId, tid)
      [] rel = "bookmark" -> findUserBookmarksTuit(userId, tid)

\* ------------------------------------------------------------------ TuitService
AnnIdle == [pc |-> "idle", userId |-> Null, tuits |-> <<>>,
            promises |-> [r \in Relations |-> <<>>],
            fetchTuits |-> <<>>,
            atCall |-> [r \in Relations |-> {}], touched |-> {}]

AnnActivePcs == {"awaitLikes", "awaitDislikes", "awaitBookmarks"}

\* History: the tuits of the list for which the viewer has a record, per relation.
RecordsOf(userId, ts) ==
    [r \in Relations |->
        {i \in 1..Len(ts) : Lookup(r, userId, ts[i]._id) # Null}]

\* History: a write to relation r while the call is in progress.
AnnTouch(r) ==
    IF ann.pc \in AnnActivePcs THEN [ann EXCEPT !.touched = @ \cup {r}] ELSE ann

\* lines 41-52: the three lookups of every tuit are issued, none awaited yet.
fetchTuitsForLikesDisLikeOwn(userId, ts) ==
    /\ ann.pc \notin AnnActivePcs
    /\ ann' = [pc |-> "awaitLikes", userId |-> userId, tuits |-> ts,
               promises |-> [r \in Relations |-> [i \in 1..Len(ts) |-> Pending]],
               fetchTuits |-> <<>>,
               atCall |-> RecordsOf(userId, ts), touched |-> {}]

\* A caller hands the service a viewer and a list of tuits.
AnnCall ==
    /\ \E userId \in Viewers, ts \in SeqsUpTo(TuitSnapshots, MaxLen) :
          fetchTuitsForLikesDisLikeOwn(userId, ts)
    /\ UNCHANGED <<store, session, web, tog, del, hist, quota>>

\* The store answers one issued lookup, with the record or null, or with an error.
ServeLookup(r, i) ==
    /\ ann.pc \in AnnActivePcs
    /\ i \in 1..Len(ann.tuits)
    /\ ann.promises[r][i] = Pending
    /\ \/ /\ ann' = [ann EXCEPT !.promises[r][i] = Lookup(r, ann.userId, ann.tuits[i]._id)]
          /\ UNCHANGED quota
       \/ /\ quota.errors > 0
          /\ ann' = [ann EXCEPT !.promises[r][i] = Failed]
          /\ quota' = [quota EXCEPT !.errors = @ - 1]
    /\ UNCHANGED <<store, session, web, tog, del, hist>>

AnnServe == \E r \in Relations, i \in 1..MaxLen : ServeLookup(r, i)

Rejected(ps) == \E i \in 1..Len(ps) : ps[i] = Failed
Fulfilled(ps) == \A i \in 1..Len(ps) : ps[i] \notin {Pending, Failed}

\* await Promise.all(ps): rejects as soon as one promise rejects, resolves
\* once all are fulfilled.
PromiseAllSettled(ps) == IF \A i \in 1..Len(ps) : ps[i] # Pending THEN "resolved" ELSE "pending"
PromiseAll(ps) ==
    IF Rejected(ps) THEN "rejected"
    ELSE IF Fulfilled(ps) THEN "resolved" ELSE "pending"

\* lines 56-71: the tuit ids of the records found, undefined for null.
IdsOf(found) ==
    [i \in 1..Len(found) |->
        IF found[i] \notin {Null, Failed} THEN ToString(TuitOf(found[i])) ELSE Undefined]

\* line 84: copyT.postedBy._id.toString() === userId.toString()
OwnerThrows(t, userId) == t.postedBy = Null \/ userId = Null
OwnedStrict(t, userId) == t.postedBy = userId
Owned(t, userId) == ToString(t.postedBy) = ToString(userId)

FlagsSwapped(t, userId, liked, disliked, bookmarked) ==
    (IF IndexOf(disliked, ToString(t._id)) >= 0 THEN {"likedByMe"} ELSE {})
    \cup (IF IndexOf(liked, ToString(t._id)) >= 0 THEN {"dislikedByMe"} ELSE {})
    \cup (IF IndexOf(bookmarked, ToString(t._id)) >= 0 THEN {"bookmarkedByMe"} ELSE {})
    \cup (IF Owned(t, userId) THEN {"ownedByMe"} ELSE {})
\* lines 74-86: the keys added to the copy of one tuit.
Flags(t, userId, liked, disliked, bookmarked) ==
    (IF IndexOf(liked, ToString(t._id)) >= 0 THEN {"likedByMe"} ELSE {})
    \cup (IF IndexOf(disliked, ToString(t._id)) >= 0 THEN {"dislikedByMe"} ELSE {})
    \cup (IF IndexOf(bookmarked, ToString(t._id)) >= 0 THEN {"bookmarkedByMe"} ELSE {})
    \cup (IF Owned(t, userId) THEN {"ownedByMe"} ELSE {})

RECURSIVE DedupSeq(_)
DedupSeq(s) ==
    IF s = <<>> THEN <<>>
    ELSE LET front == DedupSeq(SubSeq(s, 1, Len(s) - 1))
         IN  IF \E i \in 1..Len(front) : front[i]._id = s[Len(s)]._id
             THEN front ELSE Append(front, s[Len(s)])
MapTuitsDedup(ts, userId, liked, disliked, bookmarked) ==
    LET d == DedupSeq(ts)
    IN  [i \in 1..Len(d) |->
            [_id |-> d[i]._id, postedBy |-> d[i].postedBy,
             flags |-> Flags(d[i], userId, liked, disliked, bookmarked)]]
\* lines 73-88: tuits.map over the copies.
MapTuits(ts, userId, liked, disliked, bookmarked) ==
    [i \in 1..Len(ts) |->
        [_id |-> ts[i]._id, postedBy |-> ts[i].postedBy,
         flags |-> Flags(ts[i], userId, liked, disliked, bookmarked)]]

AwaitBarrierEager(pc, r, next) ==
    /\ ann.pc = pc
    /\ ann' = [ann EXCEPT !.pc = next]
    /\ UNCHANGED <<store, session, web, tog, del, hist, quota>>
\* lines 53-55: one await per relation, in the order likes, dislikes, bookmarks.
AwaitBarrier(pc, r, next) ==
    /\ ann.pc = pc
    /\ PromiseAll(ann.promises[r]) # "pending"
    /\ ann' = [ann EXCEPT !.pc =
                 IF PromiseAll(ann.promises[r]) = "rejected" THEN "rejected" ELSE next]
    /\ UNCHANGED <<store, session, web, tog, del, hist, quota>>

AwaitLikes == AwaitBarrier("awaitLikes", "like", "awaitDislikes")
AwaitDislikes == AwaitBarrier("awaitDislikes", "dislike", "awaitBookmarks")

AwaitBookmarksAndMergeInPlace ==
    /\ ann.pc = "awaitBookmarks"
    /\ PromiseAll(ann.promises["bookmark"]) # "pending"
    /\ ann' =
         IF PromiseAll(ann.promises["bookmark"]) = "rejected"
         THEN [ann EXCEPT !.pc = "rejected"]
         ELSE IF \E i \in 1..Len(ann.tuits) : OwnerThrows(ann.tuits[i], ann.userId)
         THEN [ann EXCEPT !.pc = "threw"]
         ELSE LET out == MapTuits(ann.tuits, ann.userId,
                                  IdsOf(ann.promises["like"]),
                                  IdsOf(ann.promises["dislike"]),
                                  IdsOf(ann.promises["bookmark"]))
              IN  [ann EXCEPT !.pc = "returned", !.fetchTuits = out, !.tuits = out]
    /\ UNCHANGED <<store, session, web, tog, del, hist, quota>>
\* line 55 and lines 56-89: the last await, then the merge in the same turn.
AwaitBookmarksAndMerge ==
    /\ ann.pc = "awaitBookmarks"
    /\ PromiseAll(ann.promises["bookmark"]) # "pending"
    /\ ann' =
         IF PromiseAll(ann.promises["bookmark"]) = "rejected"
         THEN [ann EXCEPT !.pc = "rejected"]
         ELSE IF \E i \in 1..Len(ann.tuits) : OwnerThrows(ann.tuits[i], ann.userId)
         THEN [ann EXCEPT !.pc = "threw"]
         ELSE [ann EXCEPT !.pc = "returned",
                          !.fetchTuits = MapTuits(ann.tuits, ann.userId,
                                                  IdsOf(ann.promises["like"]),
                                                  IdsOf(ann.promises["dislike"]),
                                                  IdsOf(ann.promises["bookmark"]))]
    /\ UNCHANGED <<store, session, web, tog, del, hist, quota>>

\* ------------------------------------------------------------------ BookmarkDao
\* deleteOne of a document of the pair; a no-op when there is none.
userUnbookmarksTuit(bm, uid, tid) ==
    [bm EXCEPT ![<<uid, tid>>] = IF @ > 0 THEN @ - 1 ELSE 0]

\* create of a document of the pair, whatever documents exist.
userBookmarksTuit(bm, uid, tid) == [bm EXCEPT ![<<uid, tid>>] = @ + 1]

deleteAllBookmarksByUser(bm, uid) ==
    [p \in Pairs |-> IF p[1] = uid THEN 0 ELSE bm[p]]

\* ------------------------------------------------------------------ BookmarkController
TogIdle == [pc |-> "idle", userId |-> "-", tid |-> "-", seen |-> FALSE, status |-> 0,
            before |-> FALSE, disturbed |-> "none", follows |-> "none"]

NoChain == [uid |-> "-", tid |-> "-", origin |-> "none"]

Present(uid, tid) == uid \in UserIds /\ bookmarks[<<uid, tid>>] > 0
Membership(b) == IF b THEN "present" ELSE "absent"

Active(s) == tog[s].pc # "idle"
SamePair(s, uid, tid) == Active(s) /\ tog[s].userId = uid /\ tog[s].tid = tid

\* History: another request works on the pair of a toggle in progress.
Disturb(t, uid, what) ==
    IF t.pc # "idle" /\ t.userId = uid /\ t.disturbed # "toggle"
    THEN [t EXCEPT !.disturbed = what] ELSE t

\* line 106: uid === 'me' && profile ? profile._id : uid
UserIdOf(uid) == IF uid = "me" /\ session # NoProfile THEN session ELSE uid

\* lines 99-109: the request arrives and the lookup of the pair is issued.
userTogglesTuitBookmarks(s, uid, tid) ==
    /\ ~Active(s)
    /\ quota.toggles > 0
    /\ LET userId == UserIdOf(uid)
           others == {o \in DOMAIN tog : o # s /\ SamePair(o, userId, tid)}
           chained == hist.chain.uid = userId /\ hist.chain.tid = tid
       IN  /\ tog' = [o \in DOMAIN tog |->
                        IF o = s
                        THEN [pc |-> "find", userId |-> userId, tid |-> tid,
                              seen |-> FALSE, status |-> 0,
                              before |-> Present(userId, tid),
                              disturbed |-> IF others # {} THEN "toggle" ELSE "none",
                              follows |-> IF chained THEN hist.chain.origin ELSE "none"]
                        ELSE IF SamePair(o, userId, tid)
                        THEN Disturb(tog[o], userId, "toggle") ELSE tog[o]]
           /\ hist' = [serial |-> hist.serial /\ \A o \in DOMAIN tog : ~Active(o),
                       chain |-> IF chained THEN NoChain ELSE hist.chain]
    /\ quota' = [quota EXCEPT !.toggles = @ - 1]
    /\ UNCHANGED <<store, session, web, ann, del>>

TogFindBlind(s) ==
    /\ tog[s].pc = "find"
    /\ tog' = [tog EXCEPT ![s].pc = "write", ![s].seen = FALSE]
    /\ tog[s].userId \in UserIds
    /\ UNCHANGED <<store, session, web, ann, del, hist, quota>>
\* line 109: the store answers the lookup, or fails; 'me' without a profile is
\* no ObjectId and the lookup throws.
TogFind(s) ==
    /\ tog[s].pc = "find"
    /\ \/ /\ tog[s].userId \in UserIds
          /\ tog' = [tog EXCEPT ![s].pc = "write",
                                ![s].seen = Present(tog[s].userId, tog[s].tid)]
          /\ UNCHANGED quota
       \/ /\ tog[s].userId \notin UserIds
          /\ tog' = [tog EXCEPT ![s].pc = "respond", ![s].status = 404]
          /\ UNCHANGED quota
       \/ /\ tog[s].userId \in UserIds
          /\ quota.errors > 0
          /\ tog' = [tog EXCEPT ![s].pc = "respond", ![s].status = 404]
          /\ quota' = [quota EXCEPT !.errors = @ - 1]
    /\ UNCHANGED <<store, session, web, ann, del, hist>>

TogWriteSwallows(s) ==
    /\ tog[s].pc = "write"
    /\ \/ /\ bookmarks' = IF tog[s].seen
                          THEN userUnbookmarksTuit(bookmarks, tog[s].userId, tog[s].tid)
                          ELSE userBookmarksTuit(bookmarks, tog[s].userId, tog[s].tid)
          /\ tog' = [tog EXCEPT ![s].pc = "respond", ![s].status = 200]
          /\ ann' = AnnTouch("bookmark")
          /\ UNCHANGED quota
       \/ /\ quota.errors > 0
          /\ tog' = [tog EXCEPT ![s].pc = "respond", ![s].status = 200]
          /\ quota' = [quota EXCEPT !.errors = @ - 1]
          /\ UNCHANGED <<bookmarks, ann>>
    /\ UNCHANGED <<users, tuits, likes, dislikes, session, web, del, hist>>
TogWriteRechecks(s) ==
    /\ tog[s].pc = "write"
    /\ bookmarks' = IF Present(tog[s].userId, tog[s].tid)
                    THEN userUnbookmarksTuit(bookmarks, tog[s].userId, tog[s].tid)
                    ELSE userBookmarksTuit(bookmarks, tog[s].userId, tog[s].tid)
    /\ tog' = [tog EXCEPT ![s].pc = "respond", ![s].status = 200]
    /\ ann' = AnnTouch("bookmark")
    /\ UNCHANGED <<users, tuits, likes, dislikes, session, web, del, hist, quota>>
\* lines 111-115: the store applies the delete or the create that was chosen, or fails.
TogWrite(s) ==
    /\ tog[s].pc = "write"
    /\ \/ /\ bookmarks' = IF tog[s].seen
                          THEN userUnbookmarksTuit(bookmarks, tog[s].userId, tog[s].tid)
                          ELSE userBookmarksTuit(bookmarks, tog[s].userId, tog[s].tid)
          /\ tog' = [tog EXCEPT ![s].pc = "respond", ![s].status = 200]
          /\ ann' = AnnTouch("bookmark")
          /\ UNCHANGED quota
       \/ /\ quota.errors > 0
          /\ tog' = [tog EXCEPT ![s].pc = "respond", ![s].status = 404]
          /\ quota' = [quota EXCEPT !.errors = @ - 1]
          /\ UNCHANGED <<bookmarks, ann>>
    /\ UNCHANGED <<users, tuits, likes, dislikes, session, web, del, hist>>

\* lines 117-119: the response of the request.
TogRespond(s) ==
    /\ tog[s].pc = "respond"
    /\ tog' = [tog EXCEPT ![s] = TogIdle]
    /\ hist' = [hist EXCEPT !.chain =
                  IF tog[s].status = 200 /\ tog[s].disturbed = "none"
                  THEN [uid |-> tog[s].userId, tid |-> tog[s].tid,
                        origin |-> Membership(tog[s].before)]
                  ELSE IF hist.chain.uid = tog[s].userId /\ hist.chain.tid = tog[s].tid
                  THEN NoChain ELSE hist.chain]
    /\ UNCHANGED <<store, session, web, ann, del, quota>>

TogStart(s) ==
    \E uid \in UserIds \cup {"me"}, tid \in TuitIds : userTogglesTuitBookmarks(s, uid, tid)

\* ------------------------------------------------------------------ DAOs of the cascade
deleteAllTuitsByUser(ts, uid) == {t \in ts : t.postedBy # uid}
deleteAllDislikesByUser(ds, uid) == {p \in ds : p[1] # uid}
deleteAllLikesByUser(ls, uid) == {p \in ls : p[1] # uid}
deleteUser(us, uid) == {u \in us : u._id # uid}
deleteUserByUsernameDao(us, username) == {u \in us : u.username # username}
findUserByUsername(username) == {u \in users : u.username = username}

Usernames == {u.username : u \in InitUsers}

\* ------------------------------------------------------------------ user deletion
DelIdle == [pc |-> "idle", kind |-> "-", uid |-> "-", deleted |-> FALSE, status |-> 0]

DelStart(kind, uid) ==
    /\ del.pc = "idle"
    /\ quota.deletes > 0
    /\ del' = [pc |-> "tuits", kind |-> kind, uid |-> uid, deleted |-> FALSE, status |-> 0]
    /\ quota' = [quota EXCEPT !.deletes = @ - 1]

\* UserController lines 148-152: the request arrives, the first delete is issued.
adminDeleteUser ==
    /\ \E uid \in UserIds : DelStart("admin", uid)
    /\ UNCHANGED <<store, session, web, ann, tog, hist>>

AuthDeleteUnchecked ==
    /\ DelStart("auth", session)
    /\ UNCHANGED <<store, session, web, ann, tog, hist>>
\* AuthenticationController lines 279-286 and 297-299: the profile of the session
\* names the user; without a profile the answer is 403.
AuthDelete ==
    /\ \/ /\ session # NoProfile
          /\ DelStart("auth", session)
       \/ /\ session = NoProfile
          /\ del.pc = "idle"
          /\ quota.deletes > 0
          /\ del' = [DelIdle EXCEPT !.status = 403]
          /\ quota' = [quota EXCEPT !.deletes = @ - 1]
    /\ UNCHANGED <<store, session, web, ann, tog, hist>>

\* A store error in an awaited call: the handler stops there and answers nothing.
DelFails ==
    /\ quota.errors > 0
    /\ del' = DelIdle
    /\ quota' = [quota EXCEPT !.errors = @ - 1]
    /\ UNCHANGED <<store, session, web, ann, tog, hist>>

\* lines 152 / 286: await tuitDao.deleteAllTuitsByUser(uid)
DelTuits ==
    /\ del.pc = "tuits"
    /\ \/ /\ tuits' = deleteAllTuitsByUser(tuits, del.uid)
          /\ del' = [del EXCEPT !.pc = "bookmarks"]
          /\ UNCHANGED <<users, likes, dislikes, bookmarks, session, web, ann, tog, hist, quota>>
       \/ DelFails

\* lines 153 / 287: await bookmarkDao.deleteAllBookmarksByUser(uid)
DelBookmarks ==
    /\ del.pc = "bookmarks"
    /\ \/ /\ bookmarks' = deleteAllBookmarksByUser(bookmarks, del.uid)
          /\ del' = [del EXCEPT !.pc = "dislikes"]
          /\ tog' = [o \in DOMAIN tog |-> Disturb(tog[o], del.uid, "deletion")]
          /\ hist' = [hist EXCEPT !.chain = IF @.uid = del.uid THEN NoChain ELSE @]
          /\ ann' = AnnTouch("bookmark")
          /\ UNCHANGED <<users, tuits, likes, dislikes, session, web, quota>>
       \/ DelFails

\* lines 154 / 288: await dislikeDao.deleteAllDislikesByUser(uid)
DelDislikes ==
    /\ del.pc = "dislikes"
    /\ \/ /\ dislikes' = deleteAllDislikesByUser(dislikes, del.uid)
          /\ del' = [del EXCEPT !.pc = "likes"]
          /\ ann' = AnnTouch("dislike")
          /\ UNCHANGED <<users, tuits, likes, bookmarks, session, web, tog, hist, quota>>
       \/ DelFails

\* lines 155 / 289: await likeDao.deleteAllLikesByUser(uid)
DelLikes ==
    /\ del.pc = "likes"
    /\ \/ /\ likes' = deleteAllLikesByUser(likes, del.uid)
          /\ del' = [del EXCEPT !.pc = "user"]
          /\ ann' = AnnTouch("like")
          /\ UNCHANGED <<users, tuits, dislikes, bookmarks, session, web, tog, hist, quota>>
       \/ DelFails

\* lines 157 / 291: userDao.deleteUser(uid)
DelUser ==
    /\ del.pc = "user"
    /\ del.kind \in {"admin", "auth"}
    /\ \/ /\ users' = deleteUser(users, del.uid)
          /\ del' = [del EXCEPT !.pc = "respond",
                                !.deleted = \E u \in users : u._id = del.uid]
          /\ UNCHANGED <<tuits, likes, dislikes, bookmarks, session, web, ann, tog, hist, quota>>
       \/ DelFails

\* UserController lines 252-253: the request arrives, the one delete is issued.
deleteUserByUsername ==
    /\ del.pc = "idle"
    /\ quota.deletes > 0
    /\ \E username \in Usernames :
         del' = [pc |-> "user", kind |-> "byUsername", uid |-> username,
                 deleted |-> FALSE, status |-> 0]
    /\ quota' = [quota EXCEPT !.deletes = @ - 1]
    /\ UNCHANGED <<store, session, web, ann, tog, hist>>

\* line 253: the store removes the user document of that username.
DelByUsername ==
    /\ del.pc = "user"
    /\ del.kind = "byUsername"
    /\ \/ /\ users' = deleteUserByUsernameDao(users, del.uid)
          /\ del' = [del EXCEPT !.pc = "respond",
                                !.deleted = findUserByUsername(del.uid) # {},
                                !.uid = IF findUserByUsername(del.uid) # {}
                                        THEN (CHOOSE u \in findUserByUsername(del.uid) : TRUE)._id
                                        ELSE "-"]
          /\ UNCHANGED <<tuits, likes, dislikes, bookmarks, session, web, ann, tog, hist, quota>>
       \/ DelFails

\* lines 158 / 292-296 / 254: the status is sent; the session-based deletion
\* destroys the session first.
DelRespond ==
    /\ del.pc = "respond"
    /\ del' = [DelIdle EXCEPT !.status = 200]
    /\ session' = IF del.kind = "auth" THEN NoProfile ELSE session
    /\ UNCHANGED <<store, ann, tog, hist, quota, web>>

\* ------------------------------------------------------------------ session
AuthIdle == [pc |-> "idle", uid |-> "-", op |-> "-", status |-> 0]

\* AuthenticationController lines 184-203: the profile is set when the user of
\* that username exists and the password matches; 403 otherwise.
AuthLogin ==
    /\ \E username \in Usernames, match \in BOOLEAN :
         \/ /\ match
            /\ \E u \in findUserByUsername(username) : session' = u._id
            /\ auth' = [auth EXCEPT !.op = "login", !.status = 200]
         \/ /\ ~match \/ findUserByUsername(username) = {}
            /\ UNCHANGED session
            /\ auth' = [auth EXCEPT !.op = "login", !.status = 403]
    /\ UNCHANGED <<store, ann, tog, del, hist, quota, usr, lst>>

AuthLogoutKeepsProfile ==
    /\ UNCHANGED session
    /\ auth' = [auth EXCEPT !.op = "logout", !.status = 200]
    /\ UNCHANGED <<store, ann, tog, del, hist, quota, usr, lst>>
\* lines 265-269: req.session.destroy()
AuthLogout ==
    /\ session' = NoProfile
    /\ auth' = [auth EXCEPT !.op = "logout", !.status = 200]
    /\ UNCHANGED <<store, ann, tog, del, hist, quota, usr, lst>>

\* lines 242-247 and 254-256: without a profile the answer is 403; with one the
\* user of the profile is looked up.
AuthProfile ==
    /\ auth.pc = "idle"
    /\ quota.profiles > 0
    /\ quota' = [quota EXCEPT !.profiles = @ - 1]
    /\ auth' = IF session # NoProfile
               THEN [pc |-> "find", uid |-> session, op |-> "profile", status |-> 0]
               ELSE [AuthIdle EXCEPT !.op = "profile", !.status = 403]
    /\ UNCHANGED <<store, session, ann, tog, del, hist, usr, lst>>

\* lines 247-253: the store answers findUserById, or fails and nothing is sent.
ProfFind ==
    /\ auth.pc = "find"
    /\ \/ /\ auth' = [AuthIdle EXCEPT !.op = "profile",
                         !.status = IF \E u \in users : u._id = auth.uid THEN 200 ELSE 403]
          /\ UNCHANGED quota
       \/ /\ quota.errors > 0
          /\ auth' = [AuthIdle EXCEPT !.op = "profile"]
          /\ quota' = [quota EXCEPT !.errors = @ - 1]
    /\ UNCHANGED <<store, session, ann, tog, del, hist, usr, lst>>

\* ------------------------------------------------------------------ user creation and update
UsrIdle == [pc |-> "idle", kind |-> "-", username |-> "-", uid |-> "-",
            existing |-> "-", n |-> 0, status |-> 0]

\* Usernames a request body can carry: the stored ones and a fresh one.
NewUsernames == Usernames \cup {"carol"}

\* The _id the store gives to the n-th created document.
NewIdPool == <<"u3", "u4", "u5", "u6">>

UsrKinds == {"createUser", "adminCreateUser", "register", "signup", "updateUser"}

\* UserDao.createUser and UserDao.updateUser.
createUserDao(us, id, username) == us \cup {[_id |-> id, username |-> username]}
updateUserDao(us, uid, username) ==
    {IF u._id = uid THEN [u EXCEPT !.username = username] ELSE u : u \in us}

\* The request arrives: createUser issues the create at once (UserController
\* line 112), updateUser looks the user up by id first (line 174), the others
\* look the username up (lines 129, 234; AuthenticationController line 218).
UsrRequest(s, kind, username, uid) ==
    /\ usr[s].pc = "idle"
    /\ quota.users > 0
    /\ usr' = [usr EXCEPT ![s] =
                 [pc |-> CASE kind = "createUser" -> "create"
                           [] kind = "updateUser" -> "findId"
                           [] OTHER -> "find",
                  kind |-> kind, username |-> username,
                  uid |-> IF kind = "updateUser" THEN uid ELSE "-",
                  existing |-> "-", n |-> quota.users, status |-> 0]]
    /\ quota' = [quota EXCEPT !.users = @ - 1]
    /\ UNCHANGED <<store, session, ann, tog, del, hist, auth, lst>>

UsrStart(s) ==
    \/ \E kind \in UsrKinds \ {"updateUser"}, username \in NewUsernames :
         UsrRequest(s, kind, username, "-")
    \/ \E username \in NewUsernames, uid \in {u._id : u \in InitUsers} :
         UsrRequest(s, "updateUser", username, uid)

\* AuthenticationController line 214: a signup request arrives.
AuthSignup(s) == \E username \in NewUsernames : UsrRequest(s, "signup", username, "-")

\* A store error in a call of the request: the promise rejects, nothing catches
\* it and no response is sent.
UsrFails(s) ==
    /\ quota.errors > 0
    /\ usr' = [usr EXCEPT ![s] = UsrIdle]
    /\ quota' = [quota EXCEPT !.errors = @ - 1]
    /\ UNCHANGED <<store, session, ann, tog, del, hist, auth, lst>>

\* updateUser line 174: existingUser = await findUserById(uid)
UsrFindId(s) ==
    /\ usr[s].pc = "findId"
    /\ \/ /\ usr' = [usr EXCEPT ![s].pc = "find",
                                ![s].existing =
                                    IF \E u \in users : u._id = usr[s].uid
                                    THEN (CHOOSE u \in users : u._id = usr[s].uid).username
                                    ELSE "-"]
          /\ UNCHANGED <<store, session, ann, tog, del, hist, quota, auth, lst>>
       \/ UsrFails(s)

\* lines 129-138, 176-195, 234-241, AuthenticationController lines 218-224: the
\* store answers findUserByUsername and the handler decides.
UsrFind(s) ==
    /\ usr[s].pc = "find"
    /\ \/ /\ LET taken == findUserByUsername(usr[s].username) # {}
             IN  usr' = [usr EXCEPT ![s] =
                   IF usr[s].kind = "updateUser"
                   THEN IF usr[s].existing = "-"
                        THEN UsrIdle
                        ELSE IF usr[s].existing = usr[s].username \/ ~taken
                        THEN [@ EXCEPT !.pc = "update"]
                        ELSE [@ EXCEPT !.pc = "respond", !.status = 403]
                   ELSE IF taken
                        THEN [@ EXCEPT !.pc = "respond", !.status = 403]
                        ELSE [@ EXCEPT !.pc = "create"]]
          /\ UNCHANGED <<store, session, ann, tog, del, hist, quota, auth, lst>>
       \/ UsrFails(s)

\* lines 112, 136, 239, AuthenticationController lines 225-230: the store inserts
\* the user; signup puts the inserted user in the session.
UsrCreate(s) ==
    /\ usr[s].pc = "create"
    /\ usr[s].n \in 1..Len(NewIdPool)
    /\ \/ /\ users' = createUserDao(users, NewIdPool[usr[s].n], usr[s].username)
          /\ session' = IF usr[s].kind = "signup" THEN NewIdPool[usr[s].n] ELSE session
          /\ usr' = [usr EXCEPT ![s].pc = "respond", ![s].status = 200]
          /\ UNCHANGED <<tuits, likes, dislikes, bookmarks, ann, tog, del, hist, quota,
                         auth, lst>>
       \/ UsrFails(s)

\* updateUser line 187: the store updates the user of that id.
UsrUpdate(s) ==
    /\ usr[s].pc = "update"
    /\ \/ /\ users' = updateUserDao(users, usr[s].uid, usr[s].username)
          /\ usr' = [usr EXCEPT ![s].pc = "respond", ![s].status = 200]
          /\ UNCHANGED <<tuits, likes, dislikes, bookmarks, session, ann, tog, del, hist,
                         quota, auth, lst>>
       \/ UsrFails(s)

\* The response of the request has been sent.
UsrRespond(s) ==
    /\ usr[s].pc = "respond"
    /\ usr' = [usr EXCEPT ![s] = UsrIdle]
    /\ UNCHANGED <<store, session, ann, tog, del, hist, quota, auth, lst>>

\* ------------------------------------------------------------------ bookmark list
\* The request of the bookmark list: its position, the user it lists, the status
\* sent, the bookmarks array the store handed to the callback (each bookmark
\* named by the tuit it references) and the store as the query saw it.
NoSnapshot == [tuits |-> {}, bookmarks |-> [t \in TuitIds |-> 0]]
LstIdle ==
    [pc |-> "idle", userId |-> "-", status |-> 0, bookmarks |-> <<>>,
     atQuery |-> NoSnapshot]

\* BookmarkDao.findAllTuitsBookmarkedByUser: the bookmarks of the user in an
\* order of the store's choosing, each named by the tuit it references.
findAllTuitsBookmarkedByUser(uid) ==
    {bs \in SeqsUpTo(TuitIds, MaxLen) :
        \A t \in TuitIds :
            Cardinality({i \in 1..Len(bs) : bs[i] = t}) =
                (IF uid \in UserIds THEN bookmarks[<<uid, t>>] ELSE 0)}

\* The populated tuit of a bookmark; a bookmark whose tuit is gone carries null
\* and BookmarkController line 66 filters it out.
TuitExists(tid) == \E t \in tuits : t._id = tid
Populated(tid) ==
    [_id |-> Oid(tid), postedBy |-> Oid((CHOOSE t \in tuits : t._id = tid).postedBy)]

TuitsFromBookmarksNewestFirst(bs) ==
    LET kept == SelectSeq(bs, TuitExists)
    IN  [i \in 1..Len(kept) |-> Populated(kept[Len(kept) + 1 - i])]
\* lines 66-67: bookmarks.filter(bookmark => bookmark.tuit).map(bookmark => bookmark.tuit)
TuitsFromBookmarks(bs) ==
    LET kept == SelectSeq(bs, TuitExists)
    IN  [i \in 1..Len(kept) |-> Populated(kept[i])]

\* The tuits and the bookmarks of the user in the store at the time of the query.
Snapshot(uid) ==
    [tuits |-> {t._id : t \in tuits},
     bookmarks |-> [t \in TuitIds |->
                      IF uid \in UserIds THEN bookmarks[<<uid, t>>] ELSE 0]]

\* lines 55-64: 'me' without a profile is answered 403 at once; otherwise the
\* bookmark query is issued.
ListRequest ==
    /\ lst.pc \in {"idle", "done"}
    /\ quota.lists > 0
    /\ \E uid \in UserIds \cup {"me"} :
         lst' = IF UserIdOf(uid) = "me"
                THEN [LstIdle EXCEPT !.pc = "done", !.userId = "me", !.status = 403]
                ELSE [LstIdle EXCEPT !.pc = "query", !.userId = UserIdOf(uid)]
    /\ quota' = [quota EXCEPT !.lists = @ - 1]
    /\ UNCHANGED <<store, session, ann, tog, del, hist, usr, auth>>

\* lines 64-68: the store answers the query and the callback calls the service;
\* a rejected query has no handler (the try block has returned) and nothing is sent.
ListQuery ==
    /\ lst.pc = "query"
    /\ \/ /\ \E bs \in findAllTuitsBookmarkedByUser(lst.userId) :
               /\ fetchTuitsForLikesDisLikeOwn(Str(lst.userId), TuitsFromBookmarks(bs))
               /\ lst' = [lst EXCEPT !.pc = "annotate",
                                     !.bookmarks = bs,
                                     !.atQuery = Snapshot(lst.userId)]
          /\ UNCHANGED quota
       \/ /\ quota.errors > 0
          /\ lst' = [lst EXCEPT !.pc = "done"]
          /\ quota' = [quota EXCEPT !.errors = @ - 1]
          /\ UNCHANGED ann
    /\ UNCHANGED <<store, session, tog, del, hist, usr, auth>>

\* lines 68-69: res.json(fetchTuits) once the service returned; a rejection of
\* the service rejects the callback and nothing is sent.
ListRespond ==
    /\ lst.pc = "annotate"
    /\ ann.pc \in {"returned", "rejected", "threw"}
    /\ lst' = [lst EXCEPT !.pc = "done",
                          !.status = IF ann.pc = "returned" THEN 200 ELSE 0]
    /\ UNCHANGED <<store, session, ann, tog, del, hist, quota, usr, auth>>

\* ------------------------------------------------------------------ specification
InitLikes == {<<"u1", "t1">>, <<"u2", "t1">>}
InitDislikes == {<<"u1", "t2">>}

InitStore ==
    /\ users = InitUsers
    /\ tuits = InitTuits
    /\ likes = InitLikes
    /\ dislikes = InitDislikes
    /\ bookmarks = [p \in Pairs |-> 0]
    /\ session = NoProfile
    /\ ann = AnnIdle
    /\ tog = [s \in 1..NSlots |-> TogIdle]
    /\ del = DelIdle
    /\ hist = [serial |-> TRUE, chain |-> NoChain]
    /\ usr = [s \in 1..NUserSlots |-> UsrIdle]
    /\ auth = AuthIdle
    /\ lst = LstIdle

Init ==
    /\ InitStore
    /\ quota = [toggles |-> MaxToggles, deletes |-> 0, errors |-> MaxStoreErrors,
                users |-> 0, profiles |-> 0, lists |-> 0]

InitAnnotate ==
    /\ InitStore
    /\ quota = [toggles |-> MaxTogglesAnnotate, deletes |-> 0, errors |-> MaxStoreErrors,
                users |-> 0, profiles |-> 0, lists |-> 0]

NextAnnotate ==
    \/ AnnCall
    \/ AnnServe
    \/ AwaitLikes
    \/ AwaitDislikes
    \/ AwaitBookmarksAndMerge
    \/ TogStart(1)
    \/ TogFind(1)
    \/ TogWrite(1)
    \/ TogRespond(1)

SpecAnnotate == InitAnnotate /\ [][NextAnnotate]_vars

Next ==
    \/ \E s \in 1..NSlots : TogStart(s)
    \/ \E s \in 1..NSlots : TogFind(s)
    \/ \E s \in 1..NSlots : TogWrite(s)
    \/ \E s \in 1..NSlots : TogRespond(s)

Spec == Init /\ [][Next]_vars

\* The event loop runs every callback that is ready and the store answers every
\* call, with a result or with an error.
SpecFair == Spec /\ WF_vars(Next)

InitDelete ==
    /\ InitStore
    /\ quota = [toggles |-> MaxTogglesDelete, deletes |-> MaxDeletes,
                errors |-> MaxStoreErrors, users |-> 0, profiles |-> 0, lists |-> 0]

NextDelete ==
    \/ \E s \in 1..NSlots : TogStart(s)
    \/ \E s \in 1..NSlots : TogFind(s)
    \/ \E s \in 1..NSlots : TogWrite(s)
    \/ \E s \in 1..NSlots : TogRespond(s)
    \/ adminDeleteUser
    \/ AuthDelete
    \/ deleteUserByUsername
    \/ DelTuits
    \/ DelBookmarks
    \/ DelDislikes
    \/ DelLikes
    \/ DelUser
    \/ DelByUsername
    \/ DelRespond
    \/ AuthLogin
    \/ AuthLogout

SpecDelete == InitDelete /\ [][NextDelete]_vars

InitUserRequests ==
    /\ InitStore
    /\ quota = [toggles |-> 0, deletes |-> 0, errors |-> MaxStoreErrors,
                users |-> MaxUserRequests, profiles |-> 0, lists |-> 0]

NextUsers ==
    \/ \E s \in 1..NUserSlots : UsrStart(s)
    \/ \E s \in 1..NUserSlots : UsrFindId(s)
    \/ \E s \in 1..NUserSlots : UsrFind(s)
    \/ \E s \in 1..NUserSlots : UsrCreate(s)
    \/ \E s \in 1..NUserSlots : UsrUpdate(s)
    \/ \E s \in 1..NUserSlots : UsrRespond(s)

SpecUsers == InitUserRequests /\ [][NextUsers]_vars

InitSession ==
    /\ InitStore
    /\ quota = [toggles |-> 0, deletes |-> MaxDeletes, errors |-> MaxStoreErrors,
                users |-> MaxSignups, profiles |-> MaxProfiles, lists |-> 0]

NextSession ==
    \/ AuthLogin
    \/ AuthLogout
    \/ AuthSignup(1)
    \/ UsrFind(1)
    \/ UsrCreate(1)
    \/ UsrRespond(1)
    \/ AuthProfile
    \/ ProfFind
    \/ AuthDelete
    \/ DelTuits
    \/ DelBookmarks
    \/ DelDislikes
    \/ DelLikes
    \/ DelUser
    \/ DelRespond

SpecSession == InitSession /\ [][NextSession]_vars

InitList ==
    /\ InitStore
    /\ quota = [toggles |-> MaxTogglesList, deletes |-> 0, errors |-> MaxStoreErrors,
                users |-> 0, profiles |-> 0, lists |-> MaxLists]

NextList ==
    \/ ListRequest
    \/ ListQuery
    \/ ListRespond
    \/ AnnServe
    \/ AwaitLikes
    \/ AwaitDislikes
    \/ AwaitBookmarksAndMerge
    \/ TogStart(1)
    \/ TogFind(1)
    \/ TogWrite(1)
    \/ TogRespond(1)
    \/ AuthLogin
    \/ AuthLogout

SpecList == InitList /\ [][NextList]_vars

\* The bookmark list next to toggles and a deletion of a user with cascade.
InitBookmarks ==
    /\ InitStore
    /\ quota = [toggles |-> MaxTogglesList, deletes |-> MaxDeletes,
                errors |-> MaxStoreErrors,
                users |-> 0, profiles |-> 0, lists |-> MaxLists]

NextBookmarks ==
    \/ ListRequest
    \/ ListQuery
    \/ ListRespond
    \/ AnnServe
    \/ AwaitLikes
    \/ AwaitDislikes
    \/ AwaitBookmarksAndMerge
    \/ TogStart(1)
    \/ TogFind(1)
    \/ TogWrite(1)
    \/ TogRespond(1)
    \/ adminDeleteUser
    \/ DelTuits
    \/ DelBookmarks
    \/ DelDislikes
    \/ DelLikes
    \/ DelUser
    \/ DelRespond

SpecBookmarks == InitBookmarks /\ [][NextBookmarks]_vars
\* ------------------------------------------------------------------ properties
FlagOf(r) ==
    CASE r = "like" -> "likedByMe"
      [] r = "dislike" -> "dislikedByMe"
      [] r = "bookmark" -> "bookmarkedByMe"

Returned == ann.pc = "returned"
Out(i) == ann.fetchTuits[i]
Positions == 1..Len(ann.tuits)

\* Some lookup of relation r that the call issued for the tuit at position i
\* found a record.
FoundFor(r, i) ==
    \E j \in Positions :
        /\ ann.tuits[j]._id = ann.tuits[i]._id
        /\ ann.promises[r][j][1] = "rec"

\* C1 as stated: on every returned tuit, likedByMe / dislikedByMe / bookmarkedByMe
\* is set if and only if the viewer's record for that tuit existed in the store at
\* the time of the call.
C1_FlagsAtCallTime ==
    Returned =>
        \A i \in 1..Len(ann.fetchTuits), r \in Relations :
            (FlagOf(r) \in Out(i).flags) <=> (i \in ann.atCall[r])

\* C1 amended: the flag is set if and only if a lookup of the call for that tuit
\* found the viewer's record, which is the record's existence at the time of
\* the call whenever no write to that relation happens during the call.
C1_FlagsAsLookedUp ==
    Returned =>
        \A i \in 1..Len(ann.fetchTuits), r \in Relations :
            /\ (FlagOf(r) \in Out(i).flags) <=> FoundFor(r, i)
            /\ r \notin ann.touched =>
                 ((FlagOf(r) \in Out(i).flags) <=> (i \in ann.atCall[r]))

C1_Witness ==
    /\ Returned
    /\ ann.touched = {}
    /\ Len(ann.fetchTuits) = 2
    /\ "likedByMe" \in Out(1).flags /\ "bookmarkedByMe" \in Out(1).flags
    /\ "dislikedByMe" \notin Out(1).flags
    /\ Out(2).flags = {"dislikedByMe"}

\* C2: on every returned tuit that has an author, ownedByMe is set if and only
\* if the author's identifier and the viewer's identifier are the same id.
C2_OwnedByMe ==
    Returned =>
        \A i \in 1..Len(ann.fetchTuits) :
            ann.tuits[i].postedBy # Null =>
                (("ownedByMe" \in Out(i).flags) <=> (ann.tuits[i].postedBy[2] = ann.userId[2]))

C2_Witness ==
    /\ Returned
    /\ \E i, j \in 1..Len(ann.fetchTuits) :
         /\ "ownedByMe" \in Out(i).flags
         /\ "ownedByMe" \notin Out(j).flags
         /\ Out(i).flags # {"ownedByMe"}

\* C3: a call that returns gives one decorated tuit per input tuit, the i-th
\* output being the copy of the i-th input.
C3_OrderAndCardinality ==
    Returned =>
        /\ Len(ann.fetchTuits) = Len(ann.tuits)
        /\ \A i \in 1..Len(ann.fetchTuits) :
             /\ Out(i)._id = ann.tuits[i]._id
             /\ Out(i).postedBy = ann.tuits[i].postedBy

C3_Witness ==
    /\ Returned
    /\ Len(ann.fetchTuits) = 2
    /\ Out(1)._id # Out(2)._id
    /\ Out(1)._id = Oid("t2")

\* C4 as stated: a call whose list holds a tuit with a null author does not raise.
C4_NullAuthorDoesNotRaise ==
    (ann.userId # Null /\ \E i \in Positions : ann.tuits[i].postedBy = Null)
        => ann.pc # "threw"

\* C9: once a lookup of the call has failed, the call never returns: it is still
\* waiting or it has been rejected, and it has produced no output.
C9_AllOrNothing ==
    (\E r \in Relations, i \in Positions : ann.promises[r][i] = Failed) =>
        /\ ann.pc \in AnnActivePcs \cup {"rejected"}
        /\ ann.fetchTuits = <<>>

C9_Witness ==
    /\ ann.pc = "rejected"
    /\ Len(ann.tuits) = 2
    /\ ann.promises["dislike"][2] = Failed
    /\ Fulfilled(ann.promises["like"])
    /\ Fulfilled(ann.promises["bookmark"])
    /\ ann.fetchTuits = <<>>

Slots == DOMAIN tog
Count(s) == bookmarks[<<tog[s].userId, tog[s].tid>>]
Responding(s) == tog[s].pc = "respond" /\ tog[s].status = 200

\* C5 as stated: a toggle that no other toggle of the pair overlaps and that meets
\* no store error responds with no record of the pair if one existed when it
\* started, and with exactly one if none existed.
C5_ToggleFlips ==
    \A s \in Slots :
        (Responding(s) /\ tog[s].disturbed # "toggle") =>
            IF tog[s].before THEN Count(s) = 0 ELSE Count(s) = 1

\* C6 as stated: the second of two toggles of a pair run in sequence, with no
\* other operation on the pair, responds with the membership the pair had
\* before the first.
C6_TwiceRestores ==
    \A s \in Slots :
        (Responding(s) /\ tog[s].disturbed = "none" /\ tog[s].follows # "none") =>
            Membership(Count(s) > 0) = tog[s].follows

\* C7: as long as every toggle has run to completion before the next one
\* started, no pair has more than one Bookmark record.
C7_SerialUnique ==
    hist.serial => \A p \in Pairs : bookmarks[p] <= 1

C7_Witness ==
    /\ hist.serial
    /\ quota.toggles = MaxToggles - 3
    /\ \E s \in Slots :
         /\ Responding(s)
         /\ tog[s].follows = "present"
         /\ Count(s) = 1

\* C8: the write of a toggle acts on what its own lookup saw, whatever another
\* toggle of the pair has written since: a create adds a record to the ones
\* there are, a delete of a pair without records succeeds and changes nothing.
C8_RacingWrites ==
    [][\A s \in Slots, o \in Slots :
          (/\ s # o
           /\ SamePair(o, tog[s].userId, tog[s].tid)
           /\ tog[o].pc = "respond" /\ tog[o].status = 200
           /\ tog[o].seen = tog[s].seen
           /\ tog[s].pc = "write" /\ tog'[s].pc = "respond" /\ tog'[s].status = 200)
          => bookmarks'[<<tog[s].userId, tog[s].tid>>] =
                IF tog[s].seen
                THEN (IF Count(s) > 0 THEN Count(s) - 1 ELSE 0)
                ELSE Count(s) + 1]_vars

C8_Witness ==
    \E s \in Slots, o \in Slots :
        /\ s # o
        /\ SamePair(o, tog[s].userId, tog[s].tid)
        /\ Responding(s) /\ Responding(o)
        /\ ~tog[s].seen /\ ~tog[o].seen
        /\ ~tog[s].before /\ ~tog[o].before
        /\ Count(s) = 2

NoRefs(uid) ==
    /\ \A t \in tuits : t.postedBy # uid
    /\ \A p \in likes \cup dislikes : p[1] # uid
    /\ \A t \in TuitIds : bookmarks[<<uid, t>>] = 0

\* C10 as stated: when a request that deleted a user responds, no tuit, like,
\* dislike or bookmark of the store references that user.
C10_NoOrphans ==
    (del.pc = "respond" /\ del.deleted) => NoRefs(del.uid)

Cascaded == del.pc = "respond" /\ del.deleted /\ del.kind \in {"admin", "auth"}

\* C11 as stated: when a deletion with cascade responds, no Like, Dislike or
\* Bookmark record references a tuit that no longer exists.
C11_NoDanglingJoins ==
    Cascaded =>
        /\ \A p \in likes \cup dislikes : TuitExists(p[2])
        /\ \A p \in Pairs : bookmarks[p] > 0 => TuitExists(p[2])

PlainTuit == {"_id", "postedBy"}

\* A step of the call of the service: it is made, a lookup settles, an await
\* resumes or the merge runs.
AnnStep == ann'.pc # ann.pc \/ ann'.promises # ann.promises

\* C12: no step of an annotate call, successful or failed, changes a User, Tuit,
\* Like, Dislike or Bookmark record or the tuits it was handed; the flags are on
\* the returned copies only.
C12_ReadOnly ==
    [][AnnStep =>
          /\ UNCHANGED store
          /\ ann.pc \in AnnActivePcs => ann'.tuits = ann.tuits
          /\ \A i \in 1..Len(ann'.tuits) : DOMAIN ann'.tuits[i] = PlainTuit
          /\ \A t \in tuits' : DOMAIN t = PlainTuit]_vars

C12_Witness ==
    /\ Returned
    /\ Len(ann.fetchTuits) = 2
    /\ \A i \in 1..2 : Out(i).flags # {} /\ DOMAIN ann.tuits[i] = PlainTuit
    /\ tuits = InitTuits /\ likes = InitLikes /\ dislikes = InitDislikes
    /\ \A q \in Pairs : bookmarks[q] = 0

\* C13 as stated: in every reachable state no two User records have the same
\* username.
C13_UniqueUsernames ==
    \A u \in users, v \in users : u.username = v.username => u._id = v._id

\* The viewer had no Like, Dislike or Bookmark record of the i-th tuit when the
\* call was made.
NoRecords(i) == \A r \in Relations : i \notin ann.atCall[r]

\* C14 as stated: a returned tuit for which the viewer has no Like, no Dislike
\* and no Bookmark record carries none of the four flags.
C14_NoRecordsNoFlags ==
    Returned =>
        \A i \in 1..Len(ann.fetchTuits) : NoRecords(i) => Out(i).flags = {}

\* C14 amended: such a tuit carries none of likedByMe, dislikedByMe and
\* bookmarkedByMe, as long as no write to the relations happens during the
\* call; it carries ownedByMe exactly when the viewer is its author.
C14_NoRecordsNoJoinFlags ==
    Returned =>
        \A i \in 1..Len(ann.fetchTuits) :
            (NoRecords(i) /\ ann.touched = {}) =>
                /\ Out(i).flags \subseteq {"ownedByMe"}
                /\ ("ownedByMe" \in Out(i).flags) <=>
                       (ann.tuits[i].postedBy[2] = ann.userId[2])

C14_Witness ==
    /\ Returned
    /\ ann.touched = {}
    /\ Len(ann.fetchTuits) = 2
    /\ NoRecords(2) /\ Out(2).flags = {"ownedByMe"}
    /\ ~NoRecords(1) /\ "likedByMe" \in Out(1).flags

\* A profile request, a delete request on /api/auth arrives.
ProfileRequest == quota'.profiles < quota.profiles
AuthDeleteRequest == quota'.deletes < quota.deletes /\ del'.kind \in {"auth", "-"}

\* C15: a profile or delete request on a session without a profile is answered
\* 403 at once and changes nothing in the store nor in the session.
C15_NoProfileForbidden ==
    [][(session = NoProfile /\ (ProfileRequest \/ AuthDeleteRequest)) =>
          /\ UNCHANGED <<store, session>>
          /\ ProfileRequest => (auth'.pc = "idle" /\ auth'.status = 403)
          /\ AuthDeleteRequest => (del'.pc = "idle" /\ del'.status = 403)]_vars

C15_Witness ==
    /\ session = NoProfile
    /\ auth.op = "profile" /\ auth.status = 403
    /\ del.pc = "idle" /\ del.status = 403
    /\ users = InitUsers /\ tuits = InitTuits
    /\ likes = InitLikes /\ dislikes = InitDislikes

\* A store call of slot s fails in this step: the store reports an error, or the
\* user id is no ObjectId.
StoreCallFails(s) == quota'.errors < quota.errors \/ tog[s].userId \notin UserIds

\* What a step does to the request of slot s.
TogResponse(s) ==
    /\ tog'[s].pc \in {"find", "write"} => tog'[s].status = 0
    /\ (tog[s].pc = "find" /\ tog'[s].pc = "write") => bookmarks' = bookmarks
    /\ (tog[s].pc \in {"find", "write"} /\ tog'[s].pc = "respond") =>
          /\ tog'[s].status = (IF StoreCallFails(s) THEN 404 ELSE 200)
          /\ tog'[s].status = 404 => bookmarks' = bookmarks
          /\ tog'[s].status = 200 => tog[s].pc = "write"
    /\ tog[s].pc = "respond" =>
          \/ tog'[s].pc = "idle"
          \/ tog'[s].pc = "respond" /\ tog'[s].status = tog[s].status

\* C16: every toggle request gets to its response, and to one only: 404 when its
\* lookup or its write failed, in which case none of its steps has changed the
\* bookmarks, and 200 when both succeeded.
C16_OneResponse ==
    /\ [][\A s \in Slots : TogResponse(s)]_vars
    /\ \A s \in 1..NSlots : (tog[s].pc \in {"find", "write"}) ~> (tog[s].pc = "respond")

C16_Witness ==
    \E s \in Slots, o \in Slots :
        /\ tog[s].pc = "respond" /\ tog[s].status = 404 /\ tog[s].seen
        /\ tog[s].userId \in UserIds
        /\ Count(s) = 1
        /\ tog[o].pc = "respond" /\ tog[o].status = 404 /\ tog[o].userId = "me"

AllFulfilled(r) == Fulfilled(ann.promises[r])

\* C17: from the first await on, the call holds one issued lookup per relation
\* and tuit and never issues another; each await is passed only with all lookups
\* of its relation completed, so the merge runs only after all 3 x N lookups.
C17_FanOutFanIn ==
    /\ ann.pc # "idle" => \A r \in Relations : Len(ann.promises[r]) = Len(ann.tuits)
    /\ ann.pc = "awaitDislikes" => AllFulfilled("like")
    /\ ann.pc = "awaitBookmarks" => AllFulfilled("like") /\ AllFulfilled("dislike")
    /\ ann.pc \in {"returned", "threw"} => \A r \in Relations : AllFulfilled(r)

C17_Witness ==
    /\ ann.pc = "awaitLikes"
    /\ Len(ann.tuits) = 2
    /\ ann.promises["like"][1] = Pending
    /\ ann.promises["like"][2] # Pending
    /\ AllFulfilled("dislike") /\ AllFulfilled("bookmark")

\* The session gets a profile in this step.
SessionSet == session' # session /\ session' # NoProfile

\* A login finds the user and the password matches; a signup inserts the user.
LoginSucceeds ==
    /\ auth'.op = "login" /\ auth'.status = 200
    /\ \E u \in users : u._id = session'
    /\ UNCHANGED <<store, del, usr, quota>>
SignupSucceeds ==
    \E s \in DOMAIN usr :
        /\ usr[s].kind = "signup" /\ usr[s].pc = "create"
        /\ usr'[s].pc = "respond" /\ usr'[s].status = 200
        /\ session' = NewIdPool[usr[s].n]

\* A logout, a deletion of the session's user completes.
LogoutCompletes == auth'.op = "logout" /\ auth' # auth
AuthDeleteCompletes == del.pc = "respond" /\ del.kind = "auth" /\ del'.pc = "idle"

\* C18: only a successful login or signup puts a profile in the session; a
\* completed logout or session-based deletion leaves it without one; and a
\* profile or delete request that finds none is answered 403.
C18_SessionLifecycle ==
    [][/\ SessionSet => (LoginSucceeds \/ SignupSucceeds)
       /\ (LogoutCompletes \/ AuthDeleteCompletes) => session' = NoProfile
       /\ (session = NoProfile /\ ProfileRequest) => auth'.status = 403
       /\ (session = NoProfile /\ AuthDeleteRequest) => del'.status = 403]_vars

C18_Witness ==
    /\ session = NoProfile
    /\ del.pc = "idle" /\ del.status = 200
    /\ \E u \in InitUsers : u \notin users
    /\ auth.op = "profile" /\ auth.status = 403

\* C19 as stated: when the handler of GET /api/users/:uid/bookmarks has run to
\* its end, a response has been sent: 200 with the decorated tuits, or 403 for
\* 'me' without a profile and for a failed bookmark query or annotate call.
C19_AlwaysAnswered ==
    lst.pc = "done" => lst.status \in {200, 403}

\* C20 as stated: when a deletion with cascade of a user responds and every
\* toggle request that overlapped it has responded too, the store holds no
\* Bookmark record of that user.
C20_NoBookmarkAfterOverlap ==
    (Cascaded /\ \A s \in Slots : ~Active(s)) =>
        \A t \in TuitIds : bookmarks[<<del.uid, t>>] = 0

\* The bookmark list was answered 200 with the result of the annotate call.
ListAnswered == lst.pc = "done" /\ lst.status = 200 /\ Returned

\* The bookmarks of the array handed to the callback whose tuit was in the store.
WithTuit(tid) == tid \in lst.atQuery.tuits
KeptBookmarks == SelectSeq(lst.bookmarks, WithTuit)

\* C21: a GET /api/users/:uid/bookmarks answered 200 whose annotate call no
\* bookmark write (toggle or deletion) overlapped responds with exactly one
\* decorated post per Bookmark record of that user whose tuit was in the store:
\* the array of the store holds one entry per record, the bookmarks with a null
\* tuit are skipped, the posts come in the order of the array, and every post
\* has bookmarkedByMe set.
C21_OnePostPerBookmark ==
    (ListAnswered /\ "bookmark" \notin ann.touched) =>
        /\ \A t \in TuitIds :
             Cardinality({i \in 1..Len(lst.bookmarks) : lst.bookmarks[i] = t}) =
                 lst.atQuery.bookmarks[t]
        /\ Len(ann.fetchTuits) = Len(KeptBookmarks)
        /\ \A i \in 1..Len(ann.fetchTuits) :
             /\ Out(i)._id = Oid(KeptBookmarks[i])
             /\ "bookmarkedByMe" \in Out(i).flags

\* A list of two bookmarks of which the one with a null tuit was skipped.
C21_Witness ==
    /\ ListAnswered
    /\ ann.touched = {}
    /\ Len(lst.bookmarks) = 2
    /\ Len(ann.fetchTuits) = 1
    /\ \E i \in 1..2 : ~WithTuit(lst.bookmarks[i])
    /\ "bookmarkedByMe" \in Out(1).flags
====
